---------------------------- MODULE Spec2Model ----------------------------
(***************************************************************************)
(* A model of the production-calendar generator (src/index.ts): the        *)
(* grouping of annotated days into ranges (makeGroups), the serialization  *)
(* of one range as a VEVENT block (createEvent, formatDate, text, makeId)  *)
(* and the assembly of the document (main).                                *)
(*                                                                         *)
(* Strings are sequences of tokens: a date key such as "2027-10-9" is the  *)
(* sequence of its characters; a template literal is one token.            *)
(* Time values are whole minutes since the epoch: every time value the     *)
(* program computes is a whole multiple of 60000 ms, and a count of        *)
(* milliseconds does not fit the model checker's integers.                 *)
(*                                                                         *)
(* `new Date(string)` follows ECMAScript: a string in the date-only ISO    *)
(* form YYYY-MM-DD is UTC midnight; any other string goes to the engine's  *)
(* legacy parser, which reads "Y-M-D" as midnight LOCAL time.  The local   *)
(* zone is an input of the run (tz, minutes east of UTC, a fixed offset).  *)
(* Non-ASCII text of the source is transliterated.                         *)
(***************************************************************************)
EXTENDS Integers, Sequences, FiniteSets, TLC

VARIABLES
  year,            \* main: the year of the run (parseCliYear's result)
  tz,              \* the local zone of the run, minutes east of UTC
  holydayOffList,  \* the Map: a sequence of [key, value] in insertion order
  sortedDates,     \* makeGroups: the sorted keys
  idx,             \* makeGroups: the index of the next element of the reduce
  acc,             \* makeGroups: the accumulator of the reduce
  groups,          \* main: the result of makeGroups
  arr,             \* main: the strings of the document
  ei,              \* main: the index of the next element of groups.forEach
  file,            \* the text written to `${year}.ics` (empty: not written)
  pc               \* the position of the program

vars == <<year, tz, holydayOffList, sortedDates, idx, acc, groups, arr, ei, file, pc>>

---------------------------------------------------------------------------
(* Bounds of the model. *)

\* The largest number of entries of the annotation map.
MaxKeys == 3

\* The number of distinct outcomes of the random source behind makeId.
NumSeeds == 2

\* The years of the runs: a leap year and a common year whose 9 and 10
\* October are a weekend.
Years == {2024, 2027}

\* The local zones of the runs: UTC, Moscow (UTC+3), New York winter (UTC-5).
TZOffsets == {0, 180, -300}

\* The (month, day) pairs a run may annotate.  The leap year has the leap
\* day between two annotated days and the two last days of the year; the
\* common year has the end of February and 9, 10 and 11 October, where the
\* key gets its second day digit.
LeapMonthDays == {<<2, 28>>, <<2, 29>>, <<3, 1>>, <<12, 30>>, <<12, 31>>}

CommonMonthDays == {<<2, 28>>, <<3, 1>>, <<10, 9>>, <<10, 10>>, <<10, 11>>}

---------------------------------------------------------------------------
(* Strings. *)

Digits == <<"0", "1", "2", "3", "4", "5", "6", "7", "8", "9">>

IsDigit(c) == \E i \in 1..10 : Digits[i] = c

DigitVal(c) == (CHOOSE i \in 1..10 : Digits[i] = c) - 1

\* String(n) of a non-negative integer, as a template literal renders it.
RECURSIVE ToStr(_)
ToStr(n) == IF n < 10 THEN <<Digits[n + 1]>>
            ELSE ToStr(n \div 10) \o <<Digits[(n % 10) + 1]>>

\* Number(s) of a string of digits.
RECURSIVE ToNum(_)
ToNum(s) == IF Len(s) = 0 THEN 0
            ELSE 10 * ToNum(SubSeq(s, 1, Len(s) - 1)) + DigitVal(s[Len(s)])

\* s.split(sep), sep one character.
RECURSIVE Split(_, _)
Split(s, sep) ==
  IF \A i \in 1..Len(s) : s[i] # sep THEN <<s>>
  ELSE LET i == CHOOSE j \in 1..Len(s) : s[j] = sep /\ \A k \in 1..(j - 1) : s[k] # sep
       IN  <<SubSeq(s, 1, i - 1)>> \o Split(SubSeq(s, i + 1, Len(s)), sep)

\* s.padStart(n, c)
RECURSIVE PadStart(_, _, _)
PadStart(s, n, c) == IF Len(s) >= n THEN s ELSE PadStart(<<c>> \o s, n, c)

\* parts.join(sep), sep a string
RECURSIVE Join(_, _)
Join(parts, sep) ==
  IF Len(parts) = 0 THEN <<>>
  ELSE IF Len(parts) = 1 THEN parts[1]
  ELSE parts[1] \o sep \o Join(Tail(parts), sep)

\* formatDate(date, sep)
FormatDate(date, sep) ==
  LET parts == Split(date, "-")
  IN  Join([i \in 1..Len(parts) |-> PadStart(parts[i], 2, "0")], sep)

---------------------------------------------------------------------------
(* The Date object. *)

MinutesPerDay == 24 * 60

\* ECMAScript MakeDay: the day number of a civil date, day 0 = 1970-01-01.
DaysFromCivil(y, m, d) ==
  LET yy  == IF m <= 2 THEN y - 1 ELSE y
      era == yy \div 400
      yoe == yy - era * 400
      mp  == IF m > 2 THEN m - 3 ELSE m + 9
      doy == (153 * mp + 2) \div 5 + d - 1
      doe == yoe * 365 + yoe \div 4 - yoe \div 100 + doy
  IN  era * 146097 + doe - 719468

\* ECMAScript YearFromTime, MonthFromTime, DateFromTime of a day number.
CivilFromDays(z) ==
  LET zz  == z + 719468
      era == zz \div 146097
      doe == zz - era * 146097
      yoe == (doe - doe \div 1460 + doe \div 36524 - doe \div 146096) \div 365
      doy == doe - (365 * yoe + yoe \div 4 - yoe \div 100)
      mp  == (5 * doy + 2) \div 153
      d   == doy - (153 * mp + 2) \div 5 + 1
      m   == IF mp < 10 THEN mp + 3 ELSE mp - 9
      y   == yoe + era * 400 + (IF m <= 2 THEN 1 ELSE 0)
  IN  <<y, m, d>>

\* Whether a string has the date-only ISO form YYYY-MM-DD.
IsISODate(s) ==
  /\ Len(s) = 10
  /\ s[5] = "-" /\ s[8] = "-"
  /\ \A i \in {1, 2, 3, 4, 6, 7, 9, 10} : IsDigit(s[i])

\* new Date(s).getTime(), in minutes, in a zone zone minutes east of UTC.
GetTime(s, zone) ==
  LET parts == Split(s, "-")
      day   == DaysFromCivil(ToNum(parts[1]), ToNum(parts[2]), ToNum(parts[3]))
  IN  IF IsISODate(s) THEN day * MinutesPerDay
      ELSE day * MinutesPerDay - zone

\* new Date(t).toISOString().split('T')[0], t in minutes.
ISODate(t) ==
  LET c == CivilFromDays(t \div MinutesPerDay)
  IN  PadStart(ToStr(c[1]), 4, "0") \o <<"-">> \o PadStart(ToStr(c[2]), 2, "0")
        \o <<"-">> \o PadStart(ToStr(c[3]), 2, "0")

---------------------------------------------------------------------------
(* The calendar page and the annotation map (parseData). *)

IsLeap(y) == (y % 4 = 0 /\ y % 100 # 0) \/ y % 400 = 0

DaysInMonth(y, m) ==
  IF m = 2 THEN (IF IsLeap(y) THEN 29 ELSE 28)
  ELSE IF m \in {4, 6, 9, 11} THEN 30 ELSE 31

\* The days of the page of year y that the model annotates, as <<y, m, d>>.
PageDays(y) ==
  LET mds == IF IsLeap(y) THEN LeapMonthDays ELSE CommonMonthDays
  IN  {<<y, md[1], md[2]>> : md \in {x \in mds : x[2] <= DaysInMonth(y, x[1])}}

\* dayKey: `${year}-${monthIndex+1}-${dayNumber}`
DayKey(t) == ToStr(t[1]) \o <<"-">> \o ToStr(t[2]) \o <<"-">> \o ToStr(t[3])

ShortenedMessage == "Predprazdnichnyj den, na 1 chas koroche"

DayOffMessage == "Vyhodnoj"

\* The values parseData sets: a day off with its hint, a shortened day.
DayOff == [message |-> DayOffMessage, holyday |-> TRUE, shortened |-> FALSE]

PreHoliday == [message |-> ShortenedMessage, holyday |-> FALSE, shortened |-> TRUE]

\* A value of the map's type that parseData never sets (line 107 returns).
Unflagged == [message |-> DayOffMessage, holyday |-> FALSE, shortened |-> FALSE]

ParsedAnnotations == {DayOff, PreHoliday}

Annotations == {DayOff, PreHoliday, Unflagged}

\* [...map.keys()]
MapKeys(map) == [i \in 1..Len(map) |-> map[i].key]

\* map.get(k)
MapGet(map, k) == (CHOOSE i \in 1..Len(map) : map[i].key = k)

KeySet(map) == {map[i].key : i \in 1..Len(map)}

\* map.set(k, v): a new key goes last, a key of the map keeps its place.
MapSet(map, k, v) ==
  IF k \in KeySet(map)
  THEN [map EXCEPT ![MapGet(map, k)] = [key |-> k, value |-> v]]
  ELSE Append(map, [key |-> k, value |-> v])

---------------------------------------------------------------------------
(* makeGroups *)

\* A comparator that orders the keys as strings, as sort() without a
\* comparator does ("-" is before every digit).
CharCode(c) == IF c = "-" THEN 45 ELSE 48 + DigitVal(c)

RECURSIVE CompareLex(_, _, _)
CompareLex(a, b, zone) ==
  IF Len(a) = 0 \/ Len(b) = 0 THEN Len(a) - Len(b)
  ELSE IF a[1] # b[1] THEN CharCode(a[1]) - CharCode(b[1])
  ELSE CompareLex(Tail(a), Tail(b), zone)

\* The comparator of the sort (line 44): negative, zero or positive.
CompareDates(a, b, zone) == GetTime(a, zone) - GetTime(b, zone)

\* One insertion of Array.prototype.sort, which is stable: x goes after
\* every element that does not compare greater than it.
RECURSIVE InsertSorted(_, _, _)
InsertSorted(s, x, zone) ==
  IF Len(s) = 0 THEN <<x>>
  ELSE IF CompareDates(s[Len(s)], x, zone) > 0
       THEN Append(InsertSorted(SubSeq(s, 1, Len(s) - 1), x, zone), s[Len(s)])
       ELSE Append(s, x)

\* The keys left in the order of the map.
SortDatesNone(s, zone) == s

RECURSIVE SortDates(_, _)
SortDates(s, zone) ==
  IF Len(s) = 0 THEN <<>>
  ELSE InsertSorted(SortDates(SubSeq(s, 1, Len(s) - 1), zone), s[Len(s)], zone)

\* The condition without the comparison of the messages.
CanExtendAnyMessage(accu, el, map, zone) ==
  /\ Len(accu) > 0
  /\ GetTime(accu[Len(accu)].end, zone) # 0
  /\ GetTime(el, zone) - GetTime(accu[Len(accu)].end, zone) = MinutesPerDay

\* The condition of the if of the reduce callback (lines 58-62).
CanExtend(accu, el, map, zone) ==
  /\ Len(accu) > 0
  /\ GetTime(accu[Len(accu)].end, zone) # 0
  /\ map[MapGet(map, el)].value.message = accu[Len(accu)].message
  /\ GetTime(el, zone) - GetTime(accu[Len(accu)].end, zone) = MinutesPerDay

\* A callback that returns the accumulator as it is where it should extend.
CallbackKeepsEnd(accu, el, map, zone) ==
  IF CanExtend(accu, el, map, zone)
  THEN accu
  ELSE Append(accu, [start |-> el, end |-> el,
                     message |-> map[MapGet(map, el)].value.message])

\* A callback that extends by replacing the last range with a new object
\* that does not spread the old one.
CallbackMovesStart(accu, el, map, zone) ==
  IF CanExtend(accu, el, map, zone)
  THEN [accu EXCEPT ![Len(accu)] = [@ EXCEPT !.start = el, !.end = el]]
  ELSE Append(accu, [start |-> el, end |-> el,
                     message |-> map[MapGet(map, el)].value.message])

\* The accumulator the reduce callback returns (lines 50-70).
Callback(accu, el, map, zone) ==
  IF CanExtend(accu, el, map, zone)
  THEN [accu EXCEPT ![Len(accu)] = [@ EXCEPT !.end = el]]
  ELSE Append(accu, [start |-> el, end |-> el,
                     message |-> map[MapGet(map, el)].value.message])

\* sortedDates.reduce(callback, []) from element i on.
RECURSIVE Reduce(_, _, _, _, _)
Reduce(accu, sorted, i, map, zone) ==
  IF i > Len(sorted) THEN accu
  ELSE Reduce(Callback(accu, sorted[i], map, zone), sorted, i + 1, map, zone)

\* makeGroups(map)
MakeGroupsOf(map, zone) == Reduce(<<>>, SortDates(MapKeys(map), zone), 1, map, zone)

\* A caller of makeGroups starts from an empty Map.
Init ==
  /\ year \in Years
  /\ tz \in TZOffsets
  /\ holydayOffList = <<>>
  /\ sortedDates = <<>>
  /\ idx = 1
  /\ acc = <<>>
  /\ groups = <<>>
  /\ arr = <<>>
  /\ ei = 1
  /\ file = <<>>
  /\ pc = "caller"

\* The caller sets one entry: any day of the page, in any order, with any
\* value of the map's value type.  (Setting a key of the map again changes
\* its value in place: the map another run of the caller builds.)
SetEntry ==
  /\ pc = "caller"
  /\ Len(holydayOffList) < MaxKeys
  /\ \E t \in PageDays(year), v \in Annotations :
       /\ DayKey(t) \notin KeySet(holydayOffList)
       /\ holydayOffList' = MapSet(holydayOffList, DayKey(t), v)
  /\ UNCHANGED <<year, tz, sortedDates, idx, acc, groups, arr, ei, file, pc>>

\* The caller calls makeGroups with the map.
CallMakeGroups ==
  /\ pc = "caller"
  /\ pc' = "makeGroups"
  /\ UNCHANGED <<year, tz, holydayOffList, sortedDates, idx, acc, groups, arr, ei, file>>

\* lines 43-44: the keys, sorted.
SortKeys ==
  /\ pc = "makeGroups"
  /\ sortedDates' = SortDates(MapKeys(holydayOffList), tz)
  /\ idx' = 1
  /\ acc' = <<>>
  /\ pc' = "reduce"
  /\ UNCHANGED <<year, tz, holydayOffList, groups, arr, ei, file>>

\* lines 46-70: one call of the reduce callback.
ReduceStep ==
  /\ pc = "reduce"
  /\ idx <= Len(sortedDates)
  /\ acc' = Callback(acc, sortedDates[idx], holydayOffList, tz)
  /\ idx' = idx + 1
  /\ UNCHANGED <<year, tz, holydayOffList, sortedDates, groups, arr, ei, file, pc>>

\* line 72 (and line 179 of main): the accumulator is the result.
ReturnGroups ==
  /\ pc = "reduce"
  /\ idx > Len(sortedDates)
  /\ groups' = acc
  /\ pc' = "returned"
  /\ UNCHANGED <<year, tz, holydayOffList, sortedDates, idx, acc, arr, ei, file>>

MakeGroups == SortKeys \/ ReduceStep \/ ReturnGroups

Next == SetEntry \/ CallMakeGroups \/ MakeGroups

Spec == Init /\ [][Next]_vars

---------------------------------------------------------------------------
(* createEvent *)

\* The length of an identifier (line 6).
IdSize == 50

\* The alphabet of customAlphabet (line 6).
Alphabet == <<"1", "2", "3", "4", "5", "6", "7", "8", "9", "0", "a", "b", "c", "d", "e", "f">>

\* An identifier one character short.
MakeIdShort(seed) == [i \in 1..(IdSize - 1) |-> Alphabet[((seed + i - 2) % Len(Alphabet)) + 1]]

\* makeId(): IdSize characters of the alphabet, chosen by the random source;
\* seed names the outcome of the random source.
MakeId(seed) == [i \in 1..IdSize |-> Alphabet[((seed + i - 2) % Len(Alphabet)) + 1]]

\* The whitespace tokens of the template of createEvent: a line break, the
\* four spaces before each line and the two spaces before the closing quote.
NL == "\n"

Indent == "    "

Outdent == "  "

IsSpace(tok) == tok \in {NL, Indent, Outdent}

\* el.replace(/\n.\s{2,}/gi, '\n'): a line break followed by three or more
\* spaces loses the spaces.
RECURSIVE StripIndent(_)
StripIndent(el) ==
  IF Len(el) = 0 THEN <<>>
  ELSE IF Len(el) >= 2 /\ el[1] = NL /\ el[2] = Indent
       THEN <<NL>> \o StripIndent(SubSeq(el, 3, Len(el)))
       ELSE <<el[1]>> \o StripIndent(Tail(el))

\* .replace(/^\n/gi, '')
StripLeadingBreak(el) == IF Len(el) > 0 /\ el[1] = NL THEN Tail(el) ELSE el

\* s.trim()
RECURSIVE Trim(_)
Trim(s) ==
  IF Len(s) = 0 THEN s
  ELSE IF IsSpace(s[1]) THEN Trim(Tail(s))
  ELSE IF IsSpace(s[Len(s)]) THEN Trim(SubSeq(s, 1, Len(s) - 1))
  ELSE s

\* text`...`: strings are the raw pieces of the template, param the values
\* between them ('' where there is none).
Text(strings, param) ==
  Trim(Join([i \in 1..Len(strings) |->
               StripLeadingBreak(StripIndent(strings[i]))
                 \o (IF i <= Len(param) THEN param[i] ELSE <<>>)],
            <<NL>>))

\* The raw pieces of the template of createEvent (lines 32-39).
EventTemplate ==
  << <<NL, Indent, "BEGIN:VEVENT", NL, Indent, "SUMMARY:">>,
     <<NL, Indent, "DTSTART;VALUE=DATE:">>,
     <<NL, Indent, "DTEND;VALUE=DATE:">>,
     <<NL, Indent, "UID:">>,
     <<NL, Indent, "END:VEVENT", NL, Outdent>> >>

\* createEvent with the end of the range as the end of the event.
CreateEventInclusiveEnd(params, id, zone) ==
  LET end == ISODate(GetTime(FormatDate(params.end, <<"-">>), zone))
  IN  Text(EventTemplate,
           << IF params.message = "" THEN <<>> ELSE <<params.message>>,
              FormatDate(params.start, <<>>),
              FormatDate(end, <<>>),
              id >>)

\* createEvent(params), id the value of makeId().
CreateEvent(params, id, zone) ==
  LET end == ISODate(GetTime(FormatDate(params.end, <<"-">>), zone) + MinutesPerDay)
  IN  Text(EventTemplate,
           << IF params.message = "" THEN <<>> ELSE <<params.message>>,
              FormatDate(params.start, <<>>),
              FormatDate(end, <<>>),
              id >>)

---------------------------------------------------------------------------
(* main *)

\* lines 171-177
Header ==
  << <<"BEGIN:VCALENDAR">>,
     <<"VERSION:2.0">>,
     <<"PRODID:-//Work calendar//ical.lexfoxer.com/work//RU">>,
     <<"X-WR-CALNAME:Proizvodstvennyj kalendar">>,
     <<"NAME:Proizvodstvennyj kalendar">> >>

Footer == <<"END:VCALENDAR">>

\* The days of a set in the order of the page: by month, then by day.
RECURSIVE PageOrder(_)
PageOrder(days) ==
  IF days = {} THEN <<>>
  ELSE LET first == CHOOSE t \in days :
                      \A u \in days : t[2] < u[2] \/ (t[2] = u[2] /\ t[3] <= u[3])
       IN  <<first>> \o PageOrder(days \ {first})

\* The maps parseData returns: keys set in the order of the page, each with
\* a value parseData sets.
ParsedMaps(y) ==
  UNION {{[i \in 1..Len(PageOrder(days)) |->
             [key |-> DayKey(PageOrder(days)[i]), value |-> vals[i]]]
           : vals \in [1..Cardinality(days) -> ParsedAnnotations]}
         : days \in {d \in SUBSET PageDays(y) : Cardinality(d) <= MaxKeys}}

\* main after parseData (line 169).
InitMain ==
  /\ year \in Years
  /\ tz \in TZOffsets
  /\ holydayOffList \in ParsedMaps(year)
  /\ sortedDates = <<>>
  /\ idx = 1
  /\ acc = <<>>
  /\ groups = <<>>
  /\ arr = <<>>
  /\ ei = 1
  /\ file = <<>>
  /\ pc = "main"

\* lines 171-179: the header, then the call of makeGroups.
MainHeader ==
  /\ pc = "main"
  /\ arr' = Header
  /\ pc' = "makeGroups"
  /\ UNCHANGED <<year, tz, holydayOffList, sortedDates, idx, acc, groups, ei, file>>

\* A forEach callback that puts the event right after the header
\* (arr.splice(5, 0, event)) instead of at the end.
ForEachGroupAfterHeader ==
  /\ pc = "returned"
  /\ ei <= Len(groups)
  /\ \E seed \in 1..NumSeeds :
       arr' = SubSeq(arr, 1, 5) \o <<CreateEvent(groups[ei], MakeId(seed), tz)>>
                \o SubSeq(arr, 6, Len(arr))
  /\ ei' = ei + 1
  /\ UNCHANGED <<year, tz, holydayOffList, sortedDates, idx, acc, groups, file, pc>>

\* lines 181-184: one call of the forEach callback.
ForEachGroup ==
  /\ pc = "returned"
  /\ ei <= Len(groups)
  /\ \E seed \in 1..NumSeeds :
       arr' = Append(arr, CreateEvent(groups[ei], MakeId(seed), tz))
  /\ ei' = ei + 1
  /\ UNCHANGED <<year, tz, holydayOffList, sortedDates, idx, acc, groups, file, pc>>

\* line 186
PushFooter ==
  /\ pc = "returned"
  /\ ei > Len(groups)
  /\ arr' = Append(arr, Footer)
  /\ pc' = "write"
  /\ UNCHANGED <<year, tz, holydayOffList, sortedDates, idx, acc, groups, ei, file>>

\* line 188
WriteFile ==
  /\ pc = "write"
  /\ file' = Join(arr, <<NL>>)
  /\ pc' = "done"
  /\ UNCHANGED <<year, tz, holydayOffList, sortedDates, idx, acc, groups, arr, ei>>

NextMain == MainHeader \/ MakeGroups \/ ForEachGroup \/ PushFooter \/ WriteFile

SpecMain == InitMain /\ [][NextMain]_vars

---------------------------------------------------------------------------
(* The calendar the properties are stated in: days counted from the        *)
(* lengths of the months, independently of the Date object.                *)

\* The days of the pages of all the years, and the key of each.
AllPageDays == UNION {PageDays(y) : y \in Years}

KeyTable == [t \in AllPageDays |-> DayKey(t)]

\* The day a key names, found among the days of the pages.
DateOf(key) == CHOOSE t \in AllPageDays : KeyTable[t] = key

RECURSIVE DaysBefore(_, _)
DaysBefore(y, m) == IF m = 1 THEN 0 ELSE DaysBefore(y, m - 1) + DaysInMonth(y, m - 1)

OrdTable == [t \in AllPageDays |-> DaysBefore(t[1], t[2]) + t[3]]

\* The number of a day in its year, 1 January = 1.
Ord(t) == OrdTable[t]

\* The calendar day after t.
NextDay(t) ==
  IF t[3] < DaysInMonth(t[1], t[2]) THEN <<t[1], t[2], t[3] + 1>>
  ELSE IF t[2] < 12 THEN <<t[1], t[2] + 1, 1>>
  ELSE <<t[1] + 1, 1, 1>>

\* n in width decimal digits.
DigitsOf(n, width) ==
  [i \in 1..width |-> Digits[((n \div (10 ^ (width - i))) % 10) + 1]]

\* YYYYMMDD
Stamp(t) == DigitsOf(t[1], 4) \o DigitsOf(t[2], 2) \o DigitsOf(t[3], 2)

\* The days of the year a range covers, by number.
Span(g) == Ord(DateOf(g.start))..Ord(DateOf(g.end))

KeyOrds == {Ord(DateOf(k)) : k \in KeySet(holydayOffList)}

\* The message of the annotation of a key.
MessageOf(k) ==
  (CHOOSE e \in {holydayOffList[i] : i \in 1..Len(holydayOffList)} : e.key = k).value.message

\* makeGroups has returned.
Returned == pc \in {"returned", "write", "done"}

\* The keys of a set in chronological order.
RECURSIVE Chrono(_)
Chrono(ks) ==
  IF ks = {} THEN <<>>
  ELSE LET k == CHOOSE a \in ks : \A b \in ks : Ord(DateOf(a)) <= Ord(DateOf(b))
       IN  <<k>> \o Chrono(ks \ {k})

\* The same entries, set in chronological order.
ChronoMap ==
  LET ks == Chrono(KeySet(holydayOffList))
  IN  [i \in 1..Len(ks) |->
         [key |-> ks[i], value |-> holydayOffList[MapGet(holydayOffList, ks[i])].value]]

\* The lines of a text: the tokens between its line breaks.
LinesOf(s) ==
  LET breaks == {j \in 1..Len(s) : s[j] = NL}
      n == Cardinality(breaks)
      break(k) == CHOOSE j \in breaks : Cardinality({x \in breaks : x < j}) = k - 1
  IN  [k \in 1..(n + 1) |->
         SubSeq(s, IF k = 1 THEN 1 ELSE break(k - 1) + 1,
                   IF k = n + 1 THEN Len(s) ELSE break(k) - 1)]

\* The lines of the i-th event of the document.
EventLines(i) == LinesOf(arr[Len(Header) + i])

\* The events main has pushed.
Pushed == 1..(ei - 1)

---------------------------------------------------------------------------
(* The claims. *)

\* C1: when makeGroups returns, the days covered by the ranges (every day
\* from start to end) are exactly the keys of the map, and every key lies
\* in exactly one range.
C1_Coverage ==
  Returned =>
    /\ UNION {Span(groups[i]) : i \in 1..Len(groups)} = KeyOrds
    /\ \A o \in KeyOrds : Cardinality({i \in 1..Len(groups) : o \in Span(groups[i])}) = 1

C1_Witness ==
  /\ Returned
  /\ Len(groups) >= 2
  /\ \E i \in 1..Len(groups) : groups[i].start # groups[i].end

\* C2: after every step of the walk and in the result, every range has
\* start <= end and every range starts after the end of the one before it.
C2_Ordered ==
  \A s \in {acc, groups} :
    /\ \A i \in 1..Len(s) : Ord(DateOf(s[i].start)) <= Ord(DateOf(s[i].end))
    /\ \A i \in 1..(Len(s) - 1) : Ord(DateOf(s[i].end)) < Ord(DateOf(s[i + 1].start))

C2_Witness ==
  /\ pc = "reduce"
  /\ Len(acc) >= 2
  /\ acc[1].start # acc[1].end
  /\ MapKeys(holydayOffList) # sortedDates

\* C3: the result never holds two consecutive ranges with equal messages
\* where the second starts on the calendar day after the end of the first.
C3_AdjacentMerged ==
  Returned =>
    \A i \in 1..(Len(groups) - 1) :
      ~ /\ groups[i].message = groups[i + 1].message
        /\ NextDay(DateOf(groups[i].end)) = DateOf(groups[i + 1].start)

\* C4: in the result, every day from the start to the end of a range is a
\* key of the map whose message is the message of the range.
C4_NoFalseMerge ==
  Returned =>
    \A i \in 1..Len(groups) :
      \A o \in Span(groups[i]) :
        \E k \in KeySet(holydayOffList) :
          Ord(DateOf(k)) = o /\ MessageOf(k) = groups[i].message

C4_Witness ==
  /\ Returned
  /\ \E a, b \in KeySet(holydayOffList) :
       NextDay(DateOf(a)) = DateOf(b) /\ MessageOf(a) # MessageOf(b)
  /\ \E a, b \in KeySet(holydayOffList) :
       Ord(DateOf(a)) + 1 < Ord(DateOf(b)) /\ MessageOf(a) = MessageOf(b)

\* C5: every event carries DTSTART = the start of its range and DTEND = the
\* calendar day after the end of its range, as eight digits; the two dates
\* of an event are never equal.
C5_ExclusiveEnd ==
  \A i \in Pushed :
    /\ EventLines(i)[3] = <<"DTSTART;VALUE=DATE:">> \o Stamp(DateOf(groups[i].start))
    /\ EventLines(i)[4] = <<"DTEND;VALUE=DATE:">> \o Stamp(NextDay(DateOf(groups[i].end)))
    /\ Tail(EventLines(i)[4]) # Tail(EventLines(i)[3])

C5_Witness ==
  \E i, j \in Pushed :
    /\ groups[i].start = groups[i].end
    /\ DateOf(groups[i].end) = <<year, 12, 31>>
    /\ DateOf(groups[j].end) = <<year, 2, 29>>

\* C6: the document is the header, one event per range in the order of the
\* ranges, and the footer; with no range, the header and the footer alone.
\* The text written has the header lines first, six lines per range and the
\* footer as its last line.
C6_Document ==
  pc \in {"write", "done"} =>
    /\ Len(arr) = Len(Header) + Len(groups) + 1
    /\ SubSeq(arr, 1, Len(Header)) = Header
    /\ arr[Len(arr)] = Footer
    /\ \A i \in 1..Len(groups) :
         /\ Len(EventLines(i)) = 6
         /\ EventLines(i)[1] = <<"BEGIN:VEVENT">>
         /\ EventLines(i)[2] = <<"SUMMARY:", groups[i].message>>
         /\ EventLines(i)[3] = <<"DTSTART;VALUE=DATE:">> \o Stamp(DateOf(groups[i].start))
         /\ EventLines(i)[6] = <<"END:VEVENT">>
    /\ \A i \in 1..(Len(groups) - 1) :
         Ord(DateOf(groups[i].start)) < Ord(DateOf(groups[i + 1].start))
    /\ holydayOffList = <<>> => arr = Header \o <<Footer>>
    /\ pc = "done" =>
         /\ Cardinality({n \in 1..Len(file) : file[n] = NL}) = Len(Header) + 6 * Len(groups)
         /\ Cardinality({n \in 1..Len(file) : file[n] = "BEGIN:VEVENT"}) = Len(groups)
         /\ \A n \in 1..Len(Header) : file[2 * n - 1] = Header[n][1] /\ file[2 * n] = NL
         /\ file[Len(file) - 1] = NL /\ file[Len(file)] = Footer[1]

C6_Witness ==
  /\ pc = "done"
  /\ Len(groups) >= 2
  /\ groups[1].message # groups[2].message

\* C7 as stated: the identifiers of the events of a document are non-empty
\* and pairwise distinct.
C7_UidsDistinct ==
  \A i, j \in Pushed :
    /\ Len(EventLines(i)[5]) > 1
    /\ i # j => EventLines(i)[5] # EventLines(j)[5]

\* C7, amended: every event carries an identifier of exactly IdSize
\* characters of the alphabet (distinctness is left to the random source).
C7_UidsWellFormed ==
  \A i \in Pushed :
    /\ Head(EventLines(i)[5]) = "UID:"
    /\ Len(EventLines(i)[5]) = 1 + IdSize
    /\ Tail(EventLines(i)[5]) \in Seq({Alphabet[a] : a \in 1..Len(Alphabet)})

C7_Witness ==
  \E i, j \in Pushed : i # j /\ EventLines(i)[5] # EventLines(j)[5]

\* C8: the sorted keys are the keys in chronological order, whatever the
\* order of the map, and the result is the result for the same entries set
\* in chronological order.
C8_OrderIndependent ==
  /\ pc = "reduce" => sortedDates = Chrono(KeySet(holydayOffList))
  /\ Returned => groups = MakeGroupsOf(ChronoMap, tz)

C8_Witness ==
  /\ Returned
  /\ Len(holydayOffList) >= 3
  /\ holydayOffList # ChronoMap
  /\ \E i \in 1..(Len(sortedDates) - 1) :
       CompareLex(sortedDates[i], sortedDates[i + 1], tz) > 0
  /\ \E i \in 1..Len(groups) : groups[i].start # groups[i].end

ReduceFrame ==
  (pc = "reduce" /\ idx' = idx + 1) =>
    LET el == sortedDates[idx]
        n  == Len(acc)
    IN  \/ acc' = Append(acc, [start |-> el, end |-> el, message |-> MessageOf(el)])
        \/ /\ n > 0
           /\ Len(acc') = n
           /\ \A i \in 1..(n - 1) : acc'[i] = acc[i]
           /\ acc'[n] = [start |-> acc[n].start, end |-> el, message |-> acc[n].message]

C10_Frame == [][ReduceFrame]_vars

C10_Witness ==
  /\ pc = "reduce"
  /\ Len(acc) >= 2
  /\ acc[Len(acc)].start # acc[Len(acc)].end

=============================================================================
